---- MODULE Spec2Model ----
(***************************************************************************)
(* A model of the TRIQS/itertools range adapters (product, zip, slice,     *)
(* stride, enumerate, transform) and of the integer range, as a state      *)
(* machine that constructs one range object and then runs the range-based  *)
(* for loop                                                                *)
(*     for (auto it = rg.begin(), e = rg.end(); it != e; ++it) body;       *)
(* over it, one loop iteration per step; and of the utilities foreach,     *)
(* make_vector_from_range and chunk_range.                                 *)
(*                                                                         *)
(* An adapter built from an lvalue holds a reference to the caller's       *)
(* container: the model keeps the caller's containers next to the adapter  *)
(* object and writes every change of the one into the other when the       *)
(* adapter holds a reference (MutateSource, SliceWriteStep).               *)
(*                                                                         *)
(* Iterators of a source container (std::vector, std::list, std::array)    *)
(* are positions 0 .. L, L being the one-past-the-end position.  Moving    *)
(* such an iterator outside 0 .. L, or reading through it at a position    *)
(* that holds no element, is undefined behaviour: the model then takes     *)
(* every outcome a build produces (see Advance and Deref).                   *)
(***************************************************************************)
EXTENDS Integers, Sequences, FiniteSets, TLC

\* ------------------------------------------------------------------ bounds
MaxLen    == 3      \* longest source sequence
MaxBase   == 1      \* a source holds base, base + 1, ... with base <= MaxBase
MaxRank   == 2      \* most sources given to product / zip
MaxIdx    == 4      \* largest slice index
MaxStride == 3      \* largest stride
MaxAbs    == 3      \* range(first, last, step): |first|, |last| <= MaxAbs
MaxStep   == 3      \* range(first, last, step): |step| <= MaxStep
Slack     == 2      \* loop iterations a run may add once it left the defined behaviour
MaxChunks == 4      \* chunk_range(first, last, n_chunks, rank): n_chunks <= MaxChunks
Width     == 4      \* bits of the integer type (long) where its overflow is modelled

\* The source containers: std::vector<int>{base, base + 1, ..., base + n - 1},
\* so that an element tells the index it was read at.
Seqs == {[i \in 1 .. n |-> base + i - 1] : n \in 0 .. MaxLen, base \in 0 .. MaxBase}

Tuples == UNION {[1 .. n -> Seqs] : n \in 1 .. MaxRank}

\* No traversal of a range within the bounds is longer than 2 * MaxAbs; a
\* loop that failed to stop is cut off Slack iterations later.
RangeCap == 2 * MaxAbs + Slack

RECURSIVE Pow(_, _)
Pow(b, e) == IF e = 0 THEN 1 ELSE b * Pow(b, e - 1)

\* The longest traversals of a container adapter and of a product; a loop
\* that failed to stop is cut off Slack iterations later.
ContainerCap == MaxLen + Slack

ProductCap == Pow(MaxLen, MaxRank) + Slack

\* The values of a two's-complement integer of Width bits.
IntMin == 0 - Pow(2, Width - 1)

IntMax == Pow(2, Width - 1) - 1

\* The longest foreach loop: it ends at the latest once i wrapped around.
ForeachCap == Pow(2, Width) + Slack

\* An indeterminate value: what a read through an invalid iterator returns.
Garbage == 0 - 1

VARIABLES
  pc,      \* "start", "constructed", "loop", "done", "error", "terminate", "fault",
           \* "probed", "compared", "sized", "foreach", "foreach_done",
           \* "chunking"
  call,    \* the factory / constructor call made, with its arguments
  obj,     \* the range object the call returned
  it,      \* the loop's iterator
  endIt,   \* the loop's end iterator or sentinel
  out,     \* the elements the loop body has seen, in order
  ret,     \* the value the last query on the range object returned
  caller   \* the caller's own containers, the ones named in the factory call

vars == <<pc, call, obj, it, endIt, out, ret, caller>>

NoCall == [fn |-> "none"]
NoObj  == [kind |-> "none"]
NoIt   == [kind |-> "none"]
NoRet  == [fn |-> "none"]

\* A value no source container holds at construction: what the caller
\* assigns to an element of its container later on.
Mark == 0 - 3

\* A second such value: what a loop body assigns through the reference it
\* got from the iterator.
Written == 0 - 2

\* ------------------------------------------------------- integer helpers
Abs(x) == IF x < 0 THEN 0 - x ELSE x

Min(a, b) == IF a < b THEN a ELSE b

Max(a, b) == IF a < b THEN b ELSE a

\* x reduced to the Width-bit two's-complement value it wraps around to
Wrap(x) == ((x - IntMin) % Pow(2, Width)) + IntMin

\* The outcomes of a signed operation whose exact result is x: the result,
\* and when x is not representable (undefined behaviour) the wrapped value or
\* a trap.
Signed(x) ==
  IF x \in IntMin .. IntMax
    THEN {[val |-> x, fault |-> FALSE]}
    ELSE {[val |-> Wrap(x), fault |-> FALSE], [val |-> Wrap(x), fault |-> TRUE]}

\* The outcomes of a / b on integers: the truncated quotient, and for b = 0
\* (undefined behaviour) a trap, or a quotient of 0 on hardware whose divide
\* instruction does not trap.
Quotient(a, b) ==
  IF b = 0
    THEN {[val |-> 0, fault |-> TRUE], [val |-> 0, fault |-> FALSE]}
    ELSE {[val |-> (IF (a < 0) = (b < 0) THEN 1 ELSE 0 - 1) * (Abs(a) \div Abs(b)),
           fault |-> FALSE]}

\* C++ integer division: the quotient is truncated towards zero.
CDiv(a, b) ==
  LET q == Abs(a) \div Abs(b)
  IN  IF (a < 0) = (b < 0) THEN q ELSE 0 - q

\* ------------------------------------------------------ itertools::range
\* a constructor that rejects only negative steps
range_ctor_throws_Neg(first, last, step) == step < 0

\* range::range(long first, long last, long step): throws when step is zero.
range_ctor_throws(first, last, step) == step = 0

\* The members the constructor initialises.
range_ctor(first, last, step) ==
  [kind |-> "range", first_ |-> first, last_ |-> last, step_ |-> step]

\* size() without the "- sign(step)" term
range_size_NoSign(rg) ==
  Max(0, CDiv(rg.last_ + rg.step_ - rg.first_, rg.step_))

\* range::size()
range_size(rg) ==
  Max(0, CDiv(rg.last_ + rg.step_ - (IF rg.step_ > 0 THEN 1 ELSE 0 - 1) - rg.first_, rg.step_))

\* range::size() on long of Width bits: every intermediate result of
\* last_ + step_ - (step_ > 0 ? 1 : -1) - first_ and of the division is a
\* signed operation; an outcome says whether one of them trapped.
range_size_long(first, last, step) ==
  { [val |-> Max(0, d.val), fault |-> a.fault \/ b.fault \/ c.fault \/ d.fault] :
      <<a, b, c, d>> \in
        { t \in UNION { UNION { UNION { { <<a1, b1, c1, d1>> :
                d1 \in Signed(CDiv(c1.val, step)) } :
              c1 \in Signed(b1.val - first) } :
            b1 \in Signed(a1.val - (IF step > 0 THEN 1 ELSE 0 - 1)) } :
          a1 \in Signed(last + step) } : TRUE } }

\* range::begin() / cbegin()
range_begin(rg) == [pos |-> rg.first_, last |-> rg.last_, step |-> rg.step_]

\* range::end() / cend()
range_end(rg) == [pos |-> rg.last_, last |-> rg.last_, step |-> rg.step_]

\* operator++ that moves by one in the direction of step
range_iter_increment_Unit(i) == [i EXCEPT !.pos = i.pos + (IF i.step > 0 THEN 1 ELSE 0 - 1)]

\* range::const_iterator::operator++
range_iter_increment(i) == [i EXCEPT !.pos = i.pos + i.step]

\* atEnd that does not count the position last itself
atEnd_Strict(i) == IF i.step > 0 THEN i.pos > i.last ELSE i.pos < i.last

\* range::const_iterator::atEnd
atEnd(i) == IF i.step > 0 THEN i.pos >= i.last ELSE i.pos <= i.last

\* operator== that compares the positions only
range_iter_eq_PosOnly(a, b) == b.pos = a.pos

\* range::const_iterator::operator==
range_iter_eq(a, b) == (b.pos = a.pos) \/ (atEnd(b) /\ atEnd(a))

\* range::const_iterator::operator*
range_iter_deref(i) == i.pos

\* --------------------------------------------- iterators of a source container
\* The source containers: contiguous storage (std::vector, std::array) or the
\* nodes of a circular doubly-linked list (std::list).
SrcKinds == {"vector", "list"}

\* ++it, std::next(it, k), std::advance(it, k) on an iterator at position p of a
\* container of length L.  Inside 0 .. L the result is p + k.  Outside, the
\* behaviour is undefined: contiguous storage yields the address p + k, the
\* list follows its links through the end node back to the first element, and
\* a build with checked iterators stops the program.
Advance(src, p, k, L) ==
  IF p \in 0 .. L /\ p + k \in 0 .. L
    THEN {[pos |-> p + k, fault |-> FALSE]}
    ELSE {[pos |-> IF src = "list" THEN (p + k) % (L + 1) ELSE p + k, fault |-> FALSE],
          [pos |-> p, fault |-> TRUE]}

\* *it on an iterator at position p of the container S.  At a position without
\* an element the read is undefined: an indeterminate value, or a stop.
Deref(S, p) ==
  IF p \in 0 .. Len(S) - 1
    THEN {[val |-> S[p + 1], fault |-> FALSE]}
    ELSE {[val |-> Garbage, fault |-> FALSE], [val |-> Garbage, fault |-> TRUE]}

\* *it = v on an iterator at position p of the container S: the container
\* after the assignment.  At a position without an element the write is
\* undefined: it lands outside the elements of S, or the program stops.
Write(S, p, v) ==
  IF p \in 0 .. Len(S) - 1
    THEN {[rg |-> [S EXCEPT ![p + 1] = v], fault |-> FALSE]}
    ELSE {[rg |-> S, fault |-> FALSE], [rg |-> S, fault |-> TRUE]}

\* itertools::distance(std::cbegin(rg), std::cend(rg))
distance(rg) == Len(rg)

\* All ways to pick one outcome per component: outs[i] is the set of outcomes
\* of component i.
Choices(outs) ==
  LET N == Len(outs)
  IN  {f \in [1 .. N -> UNION {outs[i] : i \in 1 .. N}] : \A i \in 1 .. N : f[i] \in outs[i]}

\* ----------------------------------------------- how a source is held
\* The value category of the factory's argument(s): a named container of
\* the caller (lvalue) or a temporary copy of it (rvalue).
ValCats == {"lvalue", "rvalue"}

\* every adapter type decays its source type and stores a copy
holds_reference_Never(vc) == FALSE

\* The factories take R &&rg and return detail::adapter<R>, which has a
\* member R rg: for an lvalue argument R is an lvalue reference type and the
\* member is a reference to the caller's container, for an rvalue the member
\* is a container of its own.
holds_reference(vc) == vc = "lvalue"

\* the adapter object o built from argument(s) of value category vc
held(o, vc) == o @@ [ref |-> holds_reference(vc)]

\* ------------------------------------------------------------ itertools::zip
\* zip(rgs...): detail::zipped holding the ranges
zip(tu, src) == [kind |-> "zip", tu |-> tu, src |-> src]

\* zipped::begin(): the begin iterators of all ranges
zipped_begin(z) == [its |-> [i \in 1 .. Len(z.tu) |-> 0]]

\* zipped::end(): a sentinel holding the end iterators of all ranges
zipped_end(z) == [it |-> [i \in 1 .. Len(z.tu) |-> Len(z.tu[i])]]

\* zip_iter::increment: increments every iterator
zip_increment(zi, z) ==
  LET outs == [i \in 1 .. Len(zi.its) |-> Advance(z.src, zi.its[i], 1, Len(z.tu[i]))]
  IN  {[it |-> [its |-> [i \in 1 .. Len(zi.its) |-> f[i].pos]],
        fault |-> \E i \in 1 .. Len(zi.its) : f[i].fault] : f \in Choices(outs)}

\* operator== that asks for all iterators to be at their end
zip_eq_sentinel_All(zi, s) == \A i \in 1 .. Len(zi.its) : zi.its[i] = s.it[i]

\* zip_iter::operator==(sentinel_t): one iterator equal to its end suffices
zip_eq_sentinel(zi, s) == \E i \in 1 .. Len(zi.its) : zi.its[i] = s.it[i]

\* zip_iter::dereference / prod_iter::dereference: the tuple of the
\* dereferenced iterators
tuple_map_impl(its, tu) ==
  LET outs == [i \in 1 .. Len(its) |-> Deref(tu[i], its[i])]
  IN  {[val |-> [i \in 1 .. Len(its) |-> f[i].val],
        fault |-> \E i \in 1 .. Len(its) : f[i].fault] : f \in Choices(outs)}

\* -------------------------------------------------------- itertools::product
\* product(rgs...): detail::multiplied holding the ranges
product(tu, src) == [kind |-> "product", tu |-> tu, src |-> src]

\* multiplied::begin(): prod_iter with its = its_begin
multiplied_begin(m) ==
  [its_begin |-> [i \in 1 .. Len(m.tu) |-> 0],
   its_end   |-> [i \in 1 .. Len(m.tu) |-> Len(m.tu[i])],
   its       |-> [i \in 1 .. Len(m.tu) |-> 0]]

\* multiplied::end(): a sentinel holding the end iterator of the first range
multiplied_end(m) == [it |-> Len(m.tu[1])]

\* _increment<N> that carries without resetting the Nth iterator to its begin
RECURSIVE prod_increment_NoReset(_, _, _)
prod_increment_NoReset(pi, src, N) ==
  UNION { IF ~o.fault /\ N > 1 /\ o.pos = pi.its_end[N]
            THEN prod_increment_NoReset([pi EXCEPT !.its[N] = o.pos], src, N - 1)
            ELSE {[it |-> [pi EXCEPT !.its[N] = o.pos], fault |-> o.fault]}
          : o \in Advance(src, pi.its[N], 1, pi.its_end[N]) }

\* prod_iter::_increment<N> (the ranges are numbered from 1 here)
RECURSIVE prod_increment(_, _, _)
prod_increment(pi, src, N) ==
  UNION { IF ~o.fault /\ N > 1 /\ o.pos = pi.its_end[N]
            THEN prod_increment([pi EXCEPT !.its[N] = pi.its_begin[N]], src, N - 1)
            ELSE {[it |-> [pi EXCEPT !.its[N] = o.pos], fault |-> o.fault]}
          : o \in Advance(src, pi.its[N], 1, pi.its_end[N]) }

\* prod_iter::operator==(sentinel_t): the first iterator is at its end
prod_eq_sentinel(pi, s) == s.it = pi.its[1]

\* ---------------------------------------------------------- itertools::slice
\* slice(rg, start_idx, end_idx)
slice(rg, src, start_idx, end_idx) ==
  [kind |-> "slice", rg |-> rg, src |-> src,
   start_idx |-> start_idx, end_idx |-> Max(start_idx, end_idx)]

\* sliced::size
sliced_size(sl) ==
  LET total_size == distance(sl.rg)
  IN  Min(total_size, sl.end_idx) - sl.start_idx

\* sliced::begin
sliced_begin(sl) == Advance(sl.src, 0, sl.start_idx, Len(sl.rg))

\* sliced::end: std::next(begin(), size())
sliced_end(sl) ==
  UNION { IF b.fault THEN {b} ELSE Advance(sl.src, b.pos, sliced_size(sl), Len(sl.rg))
          : b \in sliced_begin(sl) }

\* --------------------------------------------------------- itertools::stride
\* stride(rg, stride): an aggregate, nothing is checked
stride(rg, src, n) == [kind |-> "stride", rg |-> rg, src |-> src, stride |-> n]

\* stride_iter::stride_iter(it, stride) throws for stride <= 0
stride_iter_throws(i, n) == n <= 0

\* strided::end_offset
end_offset(st) ==
  LET size == distance(st.rg)
  IN  IF size = 0 THEN 0 ELSE (CDiv(size - 1, st.stride) + 1) * st.stride

\* strided::begin
strided_begin(st) == [it |-> 0, stride |-> st.stride]

\* strided::end
strided_end(st) ==
  {[it |-> [it |-> o.pos, stride |-> st.stride], fault |-> o.fault]
     : o \in Advance(st.src, 0, end_offset(st), Len(st.rg))}

\* stride_iter::increment
stride_increment(si, st) ==
  {[it |-> [si EXCEPT !.it = o.pos], fault |-> o.fault]
     : o \in Advance(st.src, si.it, si.stride, Len(st.rg))}

\* stride_iter::operator==
stride_eq(a, b) == a.it = b.it

\* ------------------------------------------------------ itertools::enumerate
\* enumerate(rg): detail::enumerated holding the range
enumerate(rg, src) == [kind |-> "enumerate", rg |-> rg, src |-> src]

\* begin() that starts the index at 1
enumerated_begin_One(e) == [it |-> 0, i |-> 1]

\* enumerated::begin(): enum_iter with the index i at its default value 0
enumerated_begin(e) == [it |-> 0, i |-> 0]

\* enumerated::end(): a sentinel holding the end iterator of the range
enumerated_end(e) == [it |-> Len(e.rg)]

\* enum_iter::increment that leaves the index alone
enum_increment_NoIndex(ei, e) ==
  {[it |-> [ei EXCEPT !.it = o.pos], fault |-> o.fault]
     : o \in Advance(e.src, ei.it, 1, Len(e.rg))}

\* enum_iter::increment: ++it; ++i;
enum_increment(ei, e) ==
  {[it |-> [ei EXCEPT !.it = o.pos, !.i = @ + 1], fault |-> o.fault]
     : o \in Advance(e.src, ei.it, 1, Len(e.rg))}

\* enum_iter::operator==(sentinel_t): the index is not compared
enum_eq_sentinel(ei, s) == ei.it = s.it

\* enum_iter::dereference: the tuple (i, *it)
enum_dereference(ei, e) ==
  {[val |-> <<ei.i, d.val>>, fault |-> d.fault] : d \in Deref(e.rg, ei.it)}

\* ------------------------------------------------------ itertools::transform
\* The callables given to transform: a callable object is its code (fn) and
\* the state it carries (n).
\*   square          [](int i) { return i * i; }
\*   enum_imitation  [n = 0](auto x) mutable { return std::make_tuple(n++, x); }
\*   sum             [](auto t) { return std::get<0>(t) + std::get<1>(t) + ...; }
square         == [fn |-> "square", n |-> 0]
enum_imitation == [fn |-> "enum_imitation", n |-> 0]
sum            == [fn |-> "sum", n |-> 0]

RECURSIVE SumSeq(_)
SumSeq(t) == IF t = <<>> THEN 0 ELSE Head(t) + SumSeq(Tail(t))

\* One call lambda(x): the value returned and the callable after the call.
Apply(lambda, x) ==
  IF lambda.fn = "square" THEN [val |-> x * x, lambda |-> lambda]
  ELSE IF lambda.fn = "sum" THEN [val |-> SumSeq(x), lambda |-> lambda]
  ELSE [val |-> <<lambda.n, x>>, lambda |-> [lambda EXCEPT !.n = @ + 1]]

\* transform(rg, lambda): detail::transformed holding the range and the
\* callable; the range is a container (inner = "container") or a zipped
\* range (inner = "zip")
transform(rg, src, lambda, inner) ==
  [kind |-> "transform", rg |-> rg, src |-> src, lambda |-> lambda, inner |-> inner]

\* transformed::cbegin(): {std::cbegin(rg), lambda}, the iterator gets a copy
\* of the callable
transformed_cbegin(t) ==
  [it |-> IF t.inner = "zip" THEN zipped_begin(t.rg) ELSE 0, lambda |-> t.lambda]

\* transformed::cend(): a sentinel holding the end of the range
transformed_cend(t) ==
  [it |-> IF t.inner = "zip" THEN zipped_end(t.rg) ELSE Len(t.rg)]

\* transform_iter::increment: ++it
transform_increment(ti, t) ==
  IF t.inner = "zip"
    THEN {[it |-> [ti EXCEPT !.it = r.it], fault |-> r.fault]
            : r \in zip_increment(ti.it, t.rg)}
    ELSE {[it |-> [ti EXCEPT !.it = o.pos], fault |-> o.fault]
            : o \in Advance(t.src, ti.it, 1, Len(t.rg))}

\* operator== that asks every zipped iterator to be at its end
transform_eq_sentinel_All(ti, s, t) ==
  IF t.inner = "zip" THEN zip_eq_sentinel_All(ti.it, s.it) ELSE ti.it = s.it

\* transform_iter::operator==(sentinel_t): it == s.it
transform_eq_sentinel(ti, s, t) ==
  IF t.inner = "zip" THEN zip_eq_sentinel(ti.it, s.it) ELSE ti.it = s.it

\* *it of the iterator of the original range
transform_source_deref(ti, t) ==
  IF t.inner = "zip" THEN tuple_map_impl(ti.it.its, t.rg.tu) ELSE Deref(t.rg, ti.it)

\* transform_iter::dereference on a callable that is not a mutable member:
\* the call acts on a copy
transform_dereference_Const(ti, t) ==
  {[val |-> Apply(ti.lambda, d.val).val, it |-> ti, fault |-> d.fault]
     : d \in transform_source_deref(ti, t)}

\* transform_iter::dereference that hands the element on as it is
transform_dereference_Id(ti, t) ==
  {[val |-> d.val, it |-> ti, fault |-> d.fault] : d \in transform_source_deref(ti, t)}

\* transform_iter::dereference: (*lambda)(*it).  The member lambda is
\* mutable: the call acts on the iterator's own callable.
transform_dereference(ti, t) ==
  {[val   |-> Apply(ti.lambda, d.val).val,
    it    |-> [ti EXCEPT !.lambda = Apply(ti.lambda, d.val).lambda],
    fault |-> d.fault] : d \in transform_source_deref(ti, t)}

\* ------------------------------------------------- iterator_facade
\* operator*() of an adapter iterator: self().dereference().  The value, and
\* the iterator after the call: dereference() is a const member function, so
\* only a mutable member can change.
iter_dereference(o, i) ==
  IF o.kind = "transform" THEN transform_dereference(i, o)
  ELSE IF o.kind = "enumerate"
    THEN {[val |-> d.val, it |-> i, fault |-> d.fault] : d \in enum_dereference(i, o)}
  ELSE IF o.kind = "stride"
    THEN {[val |-> d.val, it |-> i, fault |-> d.fault] : d \in Deref(o.rg, i.it)}
  ELSE {[val |-> d.val, it |-> i, fault |-> d.fault] : d \in tuple_map_impl(i.its, o.tu)}

\* it == end of an adapter iterator and the end of its range
iter_equal(o, i, e) ==
  IF o.kind = "transform" THEN transform_eq_sentinel(i, e, o)
  ELSE IF o.kind = "enumerate" THEN enum_eq_sentinel(i, e)
  ELSE IF o.kind = "stride" THEN stride_eq(i, e)
  ELSE IF o.kind = "zip" THEN zip_eq_sentinel(i, e)
  ELSE prod_eq_sentinel(i, e)

\* ------------------------------------------------------ itertools::utils
\* chunk_range with the large chunks placed after the small ones
chunk_range_LargeLast(first, last, n_chunks, rank) ==
  LET total_size    == last - first
      chunk_size    == CDiv(total_size, n_chunks)
      n_large_nodes == total_size - n_chunks * chunk_size
  IN  IF rank >= n_chunks - n_large_nodes
        THEN <<first + rank * (chunk_size + 1) - (n_chunks - n_large_nodes),
               first + (rank + 1) * (chunk_size + 1) - (n_chunks - n_large_nodes)>>
        ELSE <<first + rank * chunk_size, first + (rank + 1) * chunk_size>>

\* chunk_range whose small chunks are not shifted by the large ones
chunk_range_NoShift(first, last, n_chunks, rank) ==
  LET total_size    == last - first
      chunk_size    == CDiv(total_size, n_chunks)
      n_large_nodes == total_size - n_chunks * chunk_size
  IN  IF rank < n_large_nodes
        THEN <<first + rank * (chunk_size + 1), first + (rank + 1) * (chunk_size + 1)>>
        ELSE <<first + rank * chunk_size, first + (rank + 1) * chunk_size>>

\* chunk_range(first, last, n_chunks, rank)
chunk_range(first, last, n_chunks, rank) ==
  LET total_size    == last - first
      chunk_size    == CDiv(total_size, n_chunks)
      n_large_nodes == total_size - n_chunks * chunk_size
  IN  IF rank < n_large_nodes
        THEN <<first + rank * (chunk_size + 1), first + (rank + 1) * (chunk_size + 1)>>
        ELSE <<first + n_large_nodes + rank * chunk_size,
               first + n_large_nodes + (rank + 1) * chunk_size>>

\* itertools::distance(first, last) on iterators that are not random access
\* (range::const_iterator is a forward iterator):
\* for (; first != last; ++first) ++r;
\* A loop that failed to stop is cut off after RangeCap iterations.
RECURSIVE distance_loop(_, _, _)
distance_loop(first, last, r) ==
  IF range_iter_eq(first, last) \/ r >= RangeCap THEN r
  ELSE distance_loop(range_iter_increment(first), last, r + 1)

\* for (auto const &x : rg) vec.emplace_back(x);
RECURSIVE emplace_loop(_, _, _)
emplace_loop(i, e, vec) ==
  IF range_iter_eq(i, e) \/ Len(vec) >= RangeCap THEN vec
  ELSE emplace_loop(range_iter_increment(i), e, Append(vec, range_iter_deref(i)))

\* make_vector_from_range that sizes the vector where the code reserves
make_vector_from_range_Sized(rg) ==
  LET total_size == distance_loop(range_begin(rg), range_end(rg), 0)
  IN  [reserved |-> total_size,
       vec |-> emplace_loop(range_begin(rg), range_end(rg), [k \in 1 .. total_size |-> 0])]

\* make_vector_from_range(rg) of an integer range: begin and end have one
\* type, so the vector reserves distance(cbegin, cend) elements first
make_vector_from_range(rg) ==
  LET total_size == distance_loop(range_begin(rg), range_end(rg), 0)
  IN  [reserved |-> total_size,
       vec |-> emplace_loop(range_begin(rg), range_end(rg), <<>>)]

\* ----------------------------------------------------------------- actions
Init ==
  /\ pc = "start"
  /\ call = NoCall
  /\ obj = NoObj
  /\ it = NoIt
  /\ endIt = NoIt
  /\ out = <<>>
  /\ ret = NoRet
  /\ caller = <<>>

\* range(first, last, step)
MakeRange ==
  /\ pc = "start"
  /\ \E first \in (0 - MaxAbs) .. MaxAbs, last \in (0 - MaxAbs) .. MaxAbs,
        step \in (0 - MaxStep) .. MaxStep :
       /\ call' = [fn |-> "range", first |-> first, last |-> last, step |-> step]
       /\ IF range_ctor_throws(first, last, step)
            THEN pc' = "error" /\ obj' = NoObj
            ELSE pc' = "constructed" /\ obj' = range_ctor(first, last, step)
  /\ UNCHANGED <<it, endIt, out, ret, caller>>

\* rg.size()
RangeSize ==
  /\ pc = "constructed"
  /\ obj.kind = "range"
  /\ ret = NoRet
  /\ ret' = [fn |-> "size", val |-> range_size(obj)]
  /\ UNCHANGED <<pc, call, obj, it, endIt, out, caller>>

\* long n = range(first, last, step).size() for any long values with a
\* step that the constructor accepts
RangeSizeLong ==
  /\ pc = "start"
  /\ \E first \in IntMin .. IntMax, last \in IntMin .. IntMax, step \in IntMin .. IntMax :
       /\ ~range_ctor_throws(first, last, step)
       /\ call' = [fn |-> "range_size", first |-> first, last |-> last, step |-> step]
       /\ \E r \in range_size_long(first, last, step) :
            /\ ret' = [fn |-> "size", val |-> r.val]
            /\ pc' = IF r.fault THEN "fault" ELSE "sized"
  /\ UNCHANGED <<obj, it, endIt, out, caller>>

\* make_vector_from_range(rg)
MakeVectorFromRange ==
  /\ pc = "constructed"
  /\ obj.kind = "range"
  /\ ret = NoRet
  /\ ret' = [fn |-> "make_vector_from_range"] @@ make_vector_from_range(obj)
  /\ UNCHANGED <<pc, call, obj, it, endIt, out, caller>>

\* for (auto i : rg): the loop's init-statement
RangeBegin ==
  /\ pc = "constructed"
  /\ obj.kind = "range"
  /\ it' = range_begin(obj)
  /\ endIt' = range_end(obj)
  /\ pc' = "loop"
  /\ UNCHANGED <<call, obj, out, ret, caller>>

\* for (auto i : rg): the test, the body and the increment
RangeStep ==
  /\ pc = "loop"
  /\ obj.kind = "range"
  /\ Len(out) < RangeCap
  /\ IF range_iter_eq(it, endIt)
       THEN pc' = "done" /\ UNCHANGED <<it, out>>
       ELSE /\ out' = Append(out, range_iter_deref(it))
            /\ it' = range_iter_increment(it)
            /\ pc' = "loop"
  /\ UNCHANGED <<call, obj, endIt, ret, caller>>

\* it == other for the loop's iterator and another iterator of the same
\* range: begin(), end() or a copy of it incremented once
RangeCompare ==
  /\ pc = "loop"
  /\ obj.kind = "range"
  /\ \E other \in {range_begin(obj), range_end(obj), range_iter_increment(it)} :
       ret' = [fn |-> "compare", a |-> it, b |-> other, val |-> range_iter_eq(it, other)]
  /\ pc' = "compared"
  /\ UNCHANGED <<call, obj, it, endIt, out, caller>>

\* foreach(rg, f): auto i = rg.first(), last = rg.last(), step = rg.step();
ForeachBegin ==
  /\ pc = "constructed"
  /\ obj.kind = "range"
  /\ it' = [i |-> obj.first_, last |-> obj.last_, step |-> obj.step_]
  /\ pc' = "foreach"
  /\ UNCHANGED <<call, obj, endIt, out, ret, caller>>

\* foreach(rg, f): for (; i < last; i += step) f(i);  out holds the
\* arguments f was called with.  i is a long: i += step beyond its range is
\* a signed overflow.
ForeachStep ==
  /\ pc = "foreach"
  /\ Len(out) < ForeachCap
  /\ IF it.i < it.last
       THEN /\ out' = Append(out, it.i)
            /\ \E r \in Signed(it.i + it.step) :
                 IF r.fault
                   THEN pc' = "fault" /\ UNCHANGED it
                   ELSE pc' = "foreach" /\ it' = [it EXCEPT !.i = r.val]
       ELSE pc' = "foreach_done" /\ UNCHANGED <<it, out>>
  /\ UNCHANGED <<call, obj, endIt, ret, caller>>

UNCH_obj == UNCHANGED <<call, obj, ret, caller>>

\* zip(rgs...)
MakeZip ==
  /\ pc = "start"
  /\ \E tu \in Tuples, src \in SrcKinds, vc \in ValCats :
       /\ call' = [fn |-> "zip", tu |-> tu, valcat |-> vc]
       /\ obj' = held(zip(tu, src), vc)
       /\ caller' = tu
  /\ pc' = "constructed"
  /\ UNCHANGED <<it, endIt, out, ret>>

\* for (auto x : zipped): the loop's init-statement
ZipBegin ==
  /\ pc = "constructed"
  /\ obj.kind = "zip"
  /\ it' = zipped_begin(obj)
  /\ endIt' = zipped_end(obj)
  /\ pc' = "loop"
  /\ UNCHANGED <<out>>
  /\ UNCH_obj

\* for (auto x : zipped): the test, the body and the increment
ZipStep ==
  /\ pc = "loop"
  /\ obj.kind = "zip"
  /\ Len(out) < ContainerCap
  /\ IF zip_eq_sentinel(it, endIt)
       THEN pc' = "done" /\ UNCHANGED <<it, out>>
       ELSE \E d \in tuple_map_impl(it.its, obj.tu), r \in zip_increment(it, obj) :
              IF d.fault
                THEN pc' = "fault" /\ UNCHANGED <<it, out>>
                ELSE /\ out' = Append(out, d.val)
                     /\ IF r.fault
                          THEN pc' = "fault" /\ UNCHANGED it
                          ELSE pc' = "loop" /\ it' = r.it
  /\ UNCHANGED <<endIt>>
  /\ UNCH_obj

\* product(rgs...)
MakeProduct ==
  /\ pc = "start"
  /\ \E tu \in Tuples, src \in SrcKinds, vc \in ValCats :
       /\ call' = [fn |-> "product", tu |-> tu, valcat |-> vc]
       /\ obj' = held(product(tu, src), vc)
       /\ caller' = tu
  /\ pc' = "constructed"
  /\ UNCHANGED <<it, endIt, out, ret>>

\* for (auto x : multiplied): the loop's init-statement
ProductBegin ==
  /\ pc = "constructed"
  /\ obj.kind = "product"
  /\ it' = multiplied_begin(obj)
  /\ endIt' = multiplied_end(obj)
  /\ pc' = "loop"
  /\ UNCHANGED <<out>>
  /\ UNCH_obj

\* for (auto x : multiplied): the test, the body and the increment
ProductStep ==
  /\ pc = "loop"
  /\ obj.kind = "product"
  /\ Len(out) < ProductCap
  /\ IF prod_eq_sentinel(it, endIt)
       THEN pc' = "done" /\ UNCHANGED <<it, out>>
       ELSE \E d \in tuple_map_impl(it.its, obj.tu),
               r \in prod_increment(it, obj.src, Len(obj.tu)) :
              IF d.fault
                THEN pc' = "fault" /\ UNCHANGED <<it, out>>
                ELSE /\ out' = Append(out, d.val)
                     /\ IF r.fault
                          THEN pc' = "fault" /\ UNCHANGED it
                          ELSE pc' = "loop" /\ it' = r.it
  /\ UNCHANGED <<endIt>>
  /\ UNCH_obj

\* slice(rg, start_idx, end_idx)
MakeSlice ==
  /\ pc = "start"
  /\ \E rg \in Seqs, src \in SrcKinds, vc \in ValCats,
        start_idx \in 0 .. MaxIdx, end_idx \in 0 .. MaxIdx :
       /\ call' = [fn |-> "slice", rg |-> rg, valcat |-> vc,
                   start_idx |-> start_idx, end_idx |-> end_idx]
       /\ obj' = held(slice(rg, src, start_idx, end_idx), vc)
       /\ caller' = <<rg>>
  /\ pc' = "constructed"
  /\ UNCHANGED <<it, endIt, out, ret>>

\* for (auto x : sliced): the loop's init-statement
SliceBegin ==
  /\ pc = "constructed"
  /\ obj.kind = "slice"
  /\ \E b \in sliced_begin(obj), e \in sliced_end(obj) :
       IF b.fault \/ e.fault
         THEN pc' = "fault" /\ UNCHANGED <<it, endIt>>
         ELSE pc' = "loop" /\ it' = b.pos /\ endIt' = e.pos
  /\ UNCHANGED <<out>>
  /\ UNCH_obj

\* for (auto x : sliced): the test, the body and the increment, all on the
\* iterators of the source
SliceStep ==
  /\ pc = "loop"
  /\ obj.kind = "slice"
  /\ Len(out) < ContainerCap
  /\ IF it = endIt
       THEN pc' = "done" /\ UNCHANGED <<it, out>>
       ELSE \E d \in Deref(obj.rg, it), r \in Advance(obj.src, it, 1, Len(obj.rg)) :
              IF d.fault
                THEN pc' = "fault" /\ UNCHANGED <<it, out>>
                ELSE /\ out' = Append(out, d.val)
                     /\ IF r.fault
                          THEN pc' = "fault" /\ UNCHANGED it
                          ELSE pc' = "loop" /\ it' = r.pos
  /\ UNCHANGED <<endIt>>
  /\ UNCH_obj

\* for (auto &x : sliced) { x = v; }: the test, the body and the increment of
\* an iteration whose body assigns to the element
SliceWriteStep ==
  /\ pc = "loop"
  /\ obj.kind = "slice"
  /\ Len(out) < ContainerCap
  /\ it # endIt
  /\ \E w \in Write(obj.rg, it, Written), r \in Advance(obj.src, it, 1, Len(obj.rg)) :
       IF w.fault
         THEN pc' = "fault" /\ UNCHANGED <<it, out, obj, caller>>
         ELSE /\ obj' = [obj EXCEPT !.rg = w.rg]
              /\ caller' = IF obj.ref THEN <<w.rg>> ELSE caller
              /\ out' = Append(out, Written)
              /\ IF r.fault
                   THEN pc' = "fault" /\ UNCHANGED it
                   ELSE pc' = "loop" /\ it' = r.pos
  /\ UNCHANGED <<call, endIt, ret>>

\* stride(rg, n)
MakeStride ==
  /\ pc = "start"
  /\ \E rg \in Seqs, src \in SrcKinds, vc \in ValCats, n \in (0 - 1) .. MaxStride :
       /\ call' = [fn |-> "stride", rg |-> rg, valcat |-> vc, stride |-> n]
       /\ obj' = held(stride(rg, src, n), vc)
       /\ caller' = <<rg>>
  /\ pc' = "constructed"
  /\ UNCHANGED <<it, endIt, out, ret>>

\* for (auto x : strided): the loop's init-statement, begin() then end().
\* Both are noexcept: the exception of stride_iter's constructor ends the
\* program in std::terminate.
StrideBegin ==
  /\ pc = "constructed"
  /\ obj.kind = "stride"
  /\ IF stride_iter_throws(0, obj.stride)
       THEN pc' = "terminate" /\ UNCHANGED <<it, endIt>>
       ELSE \E e \in strided_end(obj) :
              IF e.fault
                THEN pc' = "fault" /\ UNCHANGED <<it, endIt>>
                ELSE pc' = "loop" /\ it' = strided_begin(obj) /\ endIt' = e.it
  /\ UNCHANGED <<out>>
  /\ UNCH_obj

\* auto e = strided.end(); auto b = strided.begin(): end() is called first.
\* end() evaluates end_offset() and std::next(std::begin(rg), end_offset())
\* before stride_iter's constructor looks at the stride; it is noexcept like
\* begin(), so the exception ends the program in std::terminate.
StrideEndFirst ==
  /\ pc = "constructed"
  /\ obj.kind = "stride"
  /\ LET size == distance(obj.rg)
     IN  \E q \in (IF size = 0 THEN {[val |-> 0, fault |-> FALSE]}
                   ELSE Quotient(size - 1, obj.stride)) :
           IF q.fault
             THEN pc' = "fault" /\ UNCHANGED <<it, endIt>>
             ELSE LET offset == IF size = 0 THEN 0 ELSE (q.val + 1) * obj.stride
                  IN  \E o \in Advance(obj.src, 0, offset, Len(obj.rg)) :
                        IF o.fault
                          THEN pc' = "fault" /\ UNCHANGED <<it, endIt>>
                          ELSE IF stride_iter_throws(o.pos, obj.stride)
                            THEN pc' = "terminate" /\ UNCHANGED <<it, endIt>>
                            ELSE /\ pc' = "loop"
                                 /\ it' = strided_begin(obj)
                                 /\ endIt' = [it |-> o.pos, stride |-> obj.stride]
  /\ UNCHANGED <<out>>
  /\ UNCH_obj

\* for (auto x : strided): the test, the body and the increment
StrideStep ==
  /\ pc = "loop"
  /\ obj.kind = "stride"
  /\ Len(out) < ContainerCap
  /\ IF stride_eq(it, endIt)
       THEN pc' = "done" /\ UNCHANGED <<it, out>>
       ELSE \E d \in Deref(obj.rg, it.it), r \in stride_increment(it, obj) :
              IF d.fault
                THEN pc' = "fault" /\ UNCHANGED <<it, out>>
                ELSE /\ out' = Append(out, d.val)
                     /\ IF r.fault
                          THEN pc' = "fault" /\ UNCHANGED it
                          ELSE pc' = "loop" /\ it' = r.it
  /\ UNCHANGED <<endIt>>
  /\ UNCH_obj

\* chunk_range(first, last, n_chunks, 0): the call of the worker of rank 0
ChunkRangeFirst ==
  /\ pc = "start"
  /\ \E first \in (0 - MaxAbs) .. MaxAbs, last \in (0 - MaxAbs) .. MaxAbs,
        n_chunks \in 1 .. MaxChunks :
       /\ call' = [fn |-> "chunk_range", first |-> first, last |-> last,
                   n_chunks |-> n_chunks]
       /\ ret' = [fn |-> "chunk_range",
                  val |-> <<chunk_range(first, last, n_chunks, 0)>>]
  /\ pc' = "chunking"
  /\ UNCHANGED <<obj, it, endIt, out, caller>>

\* chunk_range(first, last, n_chunks, rank): the call of the next worker;
\* ret.val[rank + 1] is the chunk of the worker of that rank
ChunkRangeNext ==
  /\ pc = "chunking"
  /\ Len(ret.val) < call.n_chunks
  /\ ret' = [ret EXCEPT !.val = Append(@, chunk_range(call.first, call.last,
                                                     call.n_chunks, Len(ret.val)))]
  /\ UNCHANGED <<pc, call, obj, it, endIt, out, caller>>

\* enumerate(rg)
MakeEnumerate ==
  /\ pc = "start"
  /\ \E rg \in Seqs, src \in SrcKinds, vc \in ValCats :
       /\ call' = [fn |-> "enumerate", rg |-> rg, valcat |-> vc]
       /\ obj' = held(enumerate(rg, src), vc)
       /\ caller' = <<rg>>
  /\ pc' = "constructed"
  /\ UNCHANGED <<it, endIt, out, ret>>

\* for (auto [i, x] : enumerated): the loop's init-statement
EnumerateBegin ==
  /\ pc = "constructed"
  /\ obj.kind = "enumerate"
  /\ it' = enumerated_begin(obj)
  /\ endIt' = enumerated_end(obj)
  /\ pc' = "loop"
  /\ UNCHANGED <<out>>
  /\ UNCH_obj

\* A second loop over the same enumerated range, started while the first one
\* is running or after it ended: begin() and end() are called again.  ret
\* keeps what the first loop saw and the iterator it had reached.
EnumerateAgain ==
  /\ pc \in {"loop", "done"}
  /\ obj.kind = "enumerate"
  /\ ret = NoRet
  /\ ret' = [fn |-> "traversal", out |-> out, it |-> it, complete |-> pc = "done"]
  /\ it' = enumerated_begin(obj)
  /\ endIt' = enumerated_end(obj)
  /\ out' = <<>>
  /\ pc' = "loop"
  /\ UNCHANGED <<call, obj, caller>>

\* for (auto [i, x] : enumerated): the test, the body and the increment
EnumerateStep ==
  /\ pc = "loop"
  /\ obj.kind = "enumerate"
  /\ Len(out) < ContainerCap
  /\ IF enum_eq_sentinel(it, endIt)
       THEN pc' = "done" /\ UNCHANGED <<it, out>>
       ELSE \E d \in enum_dereference(it, obj), r \in enum_increment(it, obj) :
              IF d.fault
                THEN pc' = "fault" /\ UNCHANGED <<it, out>>
                ELSE /\ out' = Append(out, d.val)
                     /\ IF r.fault
                          THEN pc' = "fault" /\ UNCHANGED it
                          ELSE pc' = "loop" /\ it' = r.it
  /\ UNCHANGED <<endIt>>
  /\ UNCH_obj

\* transform(rg, lambda) over a container
MakeTransform ==
  /\ pc = "start"
  /\ \E rg \in Seqs, src \in SrcKinds, vc \in ValCats, lambda \in {square, enum_imitation} :
       /\ call' = [fn |-> "transform", rg |-> rg, valcat |-> vc, lambda |-> lambda]
       /\ obj' = held(transform(rg, src, lambda, "container"), vc)
       /\ caller' = <<rg>>
  /\ pc' = "constructed"
  /\ UNCHANGED <<it, endIt, out, ret>>

\* transform(zip(rgs...), lambda), which is also what zip_with builds
MakeTransformZip ==
  /\ pc = "start"
  /\ \E tu \in Tuples, src \in SrcKinds, vc \in ValCats :
       /\ call' = [fn |-> "transform", tu |-> tu, valcat |-> vc, lambda |-> sum]
       /\ obj' = held(transform(zip(tu, src), src, sum, "zip"), vc)
       /\ caller' = tu
  /\ pc' = "constructed"
  /\ UNCHANGED <<it, endIt, out, ret>>

\* for (auto x : transformed): the loop's init-statement
TransformBegin ==
  /\ pc = "constructed"
  /\ obj.kind = "transform"
  /\ it' = transformed_cbegin(obj)
  /\ endIt' = transformed_cend(obj)
  /\ pc' = "loop"
  /\ UNCHANGED <<out>>
  /\ UNCH_obj

\* A second begin() that would carry on with the callable of the iterator of
\* the previous traversal instead of copying the callable of the range.
TransformAgain_KeepLambda ==
  /\ pc \in {"loop", "done"}
  /\ obj.kind = "transform"
  /\ ret = NoRet
  /\ ret' = [fn |-> "traversal", out |-> out, it |-> it, complete |-> pc = "done"]
  /\ it' = [transformed_cbegin(obj) EXCEPT !.lambda = it.lambda]
  /\ endIt' = transformed_cend(obj)
  /\ out' = <<>>
  /\ pc' = "loop"
  /\ UNCHANGED <<call, obj, caller>>

\* A second for (auto x : transformed) on the same range, after a first loop
\* that ran to the end or was left early: begin() const copies the callable
\* of the range into the new iterator.  The values and the iterator of the
\* first loop are kept in ret.
TransformAgain ==
  /\ pc \in {"loop", "done"}
  /\ obj.kind = "transform"
  /\ ret = NoRet
  /\ ret' = [fn |-> "traversal", out |-> out, it |-> it, complete |-> pc = "done"]
  /\ it' = transformed_cbegin(obj)
  /\ endIt' = transformed_cend(obj)
  /\ out' = <<>>
  /\ pc' = "loop"
  /\ UNCHANGED <<call, obj, caller>>

\* for (auto x : transformed): the test, the body and the increment
TransformStep ==
  /\ pc = "loop"
  /\ obj.kind = "transform"
  /\ Len(out) < ContainerCap
  /\ IF transform_eq_sentinel(it, endIt, obj)
       THEN pc' = "done" /\ UNCHANGED <<it, out>>
       ELSE \E d \in transform_dereference(it, obj) :
              IF d.fault
                THEN pc' = "fault" /\ UNCHANGED <<it, out>>
                ELSE /\ out' = Append(out, d.val)
                     /\ \E r \in transform_increment(d.it, obj) :
                          IF r.fault
                            THEN pc' = "fault" /\ it' = d.it
                            ELSE pc' = "loop" /\ it' = r.it
  /\ UNCHANGED <<endIt>>
  /\ UNCH_obj

\* auto a = *it; auto b = *it; bool eq = (it == end); on the iterator of a
\* loop that has not reached the end
DerefTwice ==
  /\ pc = "loop"
  /\ obj.kind \in {"enumerate", "transform", "zip", "product", "stride"}
  /\ ~iter_equal(obj, it, endIt)
  /\ \E d1 \in iter_dereference(obj, it) :
       IF d1.fault
         THEN pc' = "fault" /\ UNCHANGED <<it, ret>>
         ELSE \E d2 \in iter_dereference(obj, d1.it) :
                IF d2.fault
                  THEN pc' = "fault" /\ it' = d1.it /\ UNCHANGED ret
                  ELSE /\ pc' = "probed"
                       /\ it' = d2.it
                       /\ ret' = [fn |-> "probe", before |-> it,
                                  first |-> d1.val, second |-> d2.val,
                                  eq |-> iter_equal(obj, d2.it, endIt)]
  /\ UNCHANGED <<call, obj, endIt, out, caller>>

\* The containers an adapter object reads: its member rg, or tu.
Storage(o) ==
  IF o.kind \in {"zip", "product"} THEN o.tu
  ELSE IF o.kind = "transform" /\ o.inner = "zip" THEN o.rg.tu
  ELSE <<o.rg>>

\* the adapter object o with the containers s in place of the ones it reads
WithStorage(o, s) ==
  IF o.kind \in {"zip", "product"} THEN [o EXCEPT !.tu = s]
  ELSE IF o.kind = "transform" /\ o.inner = "zip" THEN [o EXCEPT !.rg.tu = s]
  ELSE [o EXCEPT !.rg = s[1]]

\* The caller assigns to the first element of one of its containers, after
\* the adapter was constructed and before the traversal.  An adapter that
\* holds a reference reads the very same container.
MutateSource ==
  /\ pc = "constructed"
  /\ obj.kind \in {"zip", "product", "slice", "stride", "enumerate", "transform"}
  /\ \A r \in 1 .. Len(caller) : \A j \in 1 .. Len(caller[r]) : caller[r][j] # Mark
  /\ \E r \in 1 .. Len(caller) :
       /\ Len(caller[r]) > 0
       /\ caller' = [caller EXCEPT ![r][1] = Mark]
       /\ obj' = IF obj.ref THEN WithStorage(obj, caller') ELSE obj
  /\ UNCHANGED <<pc, call, it, endIt, out, ret>>

Next ==
  \/ MutateSource
  \/ DerefTwice
  \/ MakeTransform
  \/ MakeTransformZip
  \/ TransformBegin
  \/ TransformStep
  \/ TransformAgain
  \/ MakeEnumerate
  \/ EnumerateBegin
  \/ EnumerateStep
  \/ EnumerateAgain
  \/ ChunkRangeFirst
  \/ ChunkRangeNext
  \/ MakeZip
  \/ ZipBegin
  \/ ZipStep
  \/ MakeProduct
  \/ ProductBegin
  \/ ProductStep
  \/ MakeSlice
  \/ SliceBegin
  \/ SliceStep
  \/ SliceWriteStep
  \/ MakeStride
  \/ StrideBegin
  \/ StrideEndFirst
  \/ StrideStep
  \/ MakeRange
  \/ RangeSize
  \/ RangeSizeLong
  \/ RangeBegin
  \/ RangeStep
  \/ RangeCompare
  \/ MakeVectorFromRange
  \/ ForeachBegin
  \/ ForeachStep

Spec == Init /\ [][Next]_vars

\* ------------------------------------------------------------------ claims
IsPrefix(s, t) == Len(s) <= Len(t) /\ \A i \in 1 .. Len(s) : s[i] = t[i]

\* "v lies strictly before last in the direction of step"
Before(v, last, step) == IF step > 0 THEN v < last ELSE v > last

\* The numbers k for which the term first + k*step lies strictly before last.
\* The terms move away from first by at least 1 per step, so no k beyond
\* |last - first| qualifies.
TermsBefore(first, last, step) ==
  {k \in 0 .. Abs(last - first) : Before(first + k * step, last, step)}

\* ---- product
\* The pairs of product(A, B) in row-major order: the k-th (k from 0) is
\* (A[k div n], B[k mod n]).
RowMajorPairs(A, B) ==
  LET m == Len(A)
      n == Len(B)
  IN  [k \in 1 .. m * n |-> <<A[((k - 1) \div n) + 1], B[((k - 1) % n) + 1]>>]

\* C1: for any finite sequences A (length m) and B (length n), traversing
\* product(A, B) from begin() until the iterator equals end() yields exactly
\* m*n pairs, the k-th being (A[k div n], B[k mod n]).
C1_ProductPairs ==
  (obj.kind = "product" /\ Len(obj.tu) = 2) =>
    LET pairs == RowMajorPairs(obj.tu[1], obj.tu[2])
    IN  /\ IsPrefix(out, pairs)
        /\ pc = "done" => out = pairs

RECURSIVE ProductOfSizes(_)
ProductOfSizes(tu) ==
  IF tu = <<>> THEN 1 ELSE Len(Head(tu)) * ProductOfSizes(Tail(tu))

\* C2: for any N >= 1 finite source ranges of any sizes, a full traversal of
\* product(r1, ..., rN) yields as many elements as the product of the sizes of
\* r1, ..., rN.
C2_ProductCount ==
  obj.kind = "product" =>
    /\ Len(out) <= ProductOfSizes(obj.tu)
    /\ pc = "done" => Len(out) = ProductOfSizes(obj.tu)

\* ---- zip
\* The pairs (A[i], B[i]) for i below min(m, n).
ZipPairs(A, B) == [i \in 1 .. Min(Len(A), Len(B)) |-> <<A[i], B[i]>>]

\* C3: for any finite sequences A (length m) and B (length n), traversing
\* zip(A, B) yields exactly min(m, n) pairs, the i-th being (A[i], B[i]); the
\* traversal stops as soon as one source iterator equals its own end: no source
\* iterator is ever moved past its end and no element is read through one.
C3_ZipPairs ==
  (obj.kind = "zip" /\ Len(obj.tu) = 2) =>
    LET pairs == ZipPairs(obj.tu[1], obj.tu[2])
    IN  /\ pc # "fault"
        /\ IsPrefix(out, pairs)
        /\ pc \in {"loop", "done"} =>
             \A i \in 1 .. 2 : it.its[i] = Len(out) /\ it.its[i] <= Len(obj.tu[i])
        /\ pc = "done" =>
             /\ out = pairs
             /\ Len(out) = Min(Len(obj.tu[1]), Len(obj.tu[2]))
             /\ \E i \in 1 .. 2 : it.its[i] = Len(obj.tu[i])

C3_Witness ==
  /\ obj.kind = "zip" /\ Len(obj.tu) = 2 /\ pc = "done"
  /\ Len(obj.tu[1]) = 3 /\ Len(obj.tu[2]) = 2
  /\ out = <<<<obj.tu[1][1], obj.tu[2][1]>>, <<obj.tu[1][2], obj.tu[2][2]>>>>
  /\ obj.tu[1][1] # obj.tu[1][2]

\* ---- slice
\* S[start], ..., S[min(end, len(S)) - 1] (indices from 0), empty when
\* start >= min(end, len(S)).
SliceElems(S, start, end) ==
  LET stop == Min(end, Len(S))
  IN  IF start >= stop THEN <<>> ELSE [i \in 1 .. stop - start |-> S[start + i]]

\* C4: for any finite sequence S and 0 <= start_idx <= end_idx, traversing
\* slice(S, start_idx, end_idx) yields exactly S[start_idx], ...,
\* S[min(end_idx, len(S)) - 1] in order, and nothing when
\* start_idx >= min(end_idx, len(S)).
C4_SliceElems ==
  (obj.kind = "slice" /\ call.start_idx <= call.end_idx) =>
    LET elems == SliceElems(obj.rg, call.start_idx, call.end_idx)
    IN  /\ IsPrefix(out, elems)
        /\ pc = "done" => out = elems

\* C5: for any finite sequence S and any start_idx >= 0, if end_idx < start_idx
\* then slice(S, start_idx, end_idx) is empty: its begin() equals its end() and
\* a traversal yields no element.
C5_SliceEmpty ==
  (obj.kind = "slice" /\ call.end_idx < call.start_idx) =>
    /\ pc \in {"loop", "done"} => it = endIt
    /\ out = <<>>

\* ---- stride
\* ceil(L / n) for n > 0
CeilDiv(L, n) == (L + n - 1) \div n

\* S[0], S[n], S[2n], ...: ceil(len(S) / n) elements.
StrideElems(S, n) == [i \in 1 .. CeilDiv(Len(S), n) |-> S[(i - 1) * n + 1]]

\* C6: for any finite sequence S of length L (L = 0 included) and any stride
\* n > 0, traversing stride(S, n) from begin() until equal to end() yields
\* exactly ceil(L/n) elements, namely S[0], S[n], S[2n], ... in order.
C6_StrideElems ==
  (obj.kind = "stride" /\ call.stride > 0) =>
    LET elems == StrideElems(obj.rg, call.stride)
    IN  /\ IsPrefix(out, elems)
        /\ pc = "done" => out = elems

\* C7: the call stride(rg, n) with n <= 0 fails with an invalid-argument error
\* at construction of the adapter, before any begin() or end() is requested.
C7_StrideConstruction ==
  (call.fn = "stride" /\ call.stride <= 0) => (pc = "error" /\ obj = NoObj)

\* ---- integer range
\* C8: range(first, last, step) with step == 0 fails and produces no range
\* object, for every first and last; with step != 0 it succeeds and the object
\* stores exactly the given first, last and step.
C8_RangeConstruction ==
  call.fn = "range" =>
    IF call.step = 0
      THEN pc = "error" /\ obj = NoObj
      ELSE /\ pc # "error"
           /\ obj.kind = "range"
           /\ obj.first_ = call.first
           /\ obj.last_ = call.last
           /\ obj.step_ = call.step

C8_Witness ==
  /\ call.fn = "range" /\ call.step = 0 /\ call.first # call.last
  /\ pc = "error"

\* C9: for every range with step != 0, size() is the number of terms first,
\* first+step, first+2*step, ... strictly before last in the direction of step
\* (0 when there is none), and it is the number of elements a traversal from
\* begin() to end() yields.
C9_RangeSize ==
  (obj.kind = "range" /\ ret.fn = "size") =>
    /\ ret.val = Cardinality(TermsBefore(obj.first_, obj.last_, obj.step_))
    /\ pc = "done" => Len(out) = ret.val

C9_Witness ==
  /\ obj.kind = "range" /\ ret.fn = "size" /\ pc = "done"
  /\ obj.step_ = 0 - 2 /\ obj.first_ = 2 /\ obj.last_ = 0 - 2
  /\ ret.val = 2

\* The terms first, first+step, ... up to, and without, the first one that is
\* not strictly before last.
RangeTerms(first, last, step) ==
  LET n == CHOOSE k \in 0 .. Abs(last - first) + 1 :
             /\ ~Before(first + k * step, last, step)
             /\ \A j \in 0 .. k - 1 : Before(first + j * step, last, step)
  IN  [i \in 1 .. n |-> first + (i - 1) * step]

\* C10: traversing range(first, last, step), step != 0, from begin() until the
\* iterator equals end() yields exactly first, first+step, first+2*step, ... in
\* order and stops before the first term that is >= last (step > 0) or <= last
\* (step < 0); it yields nothing when last is not ahead of first.
C10_RangeTraversal ==
  (obj.kind = "range" /\ pc \in {"loop", "done"}) =>
    LET terms == RangeTerms(obj.first_, obj.last_, obj.step_)
    IN  /\ IsPrefix(out, terms)
        /\ pc = "done" => out = terms
        /\ (~Before(obj.first_, obj.last_, obj.step_) /\ pc = "done") => out = <<>>

C10_Witness ==
  /\ obj.kind = "range" /\ pc = "done"
  /\ obj.first_ = 0 - 3 /\ obj.last_ = 2 /\ obj.step_ = 2
  /\ out = <<0 - 3, 0 - 1, 1>>

\* C11: for first <= last, n_chunks >= 1 and 0 <= rank < n_chunks the chunk
\* of a rank has floor((last - first) / n_chunks) + 1 elements when
\* rank < (last - first) mod n_chunks and floor((last - first) / n_chunks)
\* otherwise: the sizes differ by at most one and exactly the first
\* (last - first) mod n_chunks chunks are the larger ones.
ChunkSize(c) == c[2] - c[1]

C11_ChunkSizes ==
  (pc = "chunking" /\ call.first <= call.last) =>
    LET total == call.last - call.first
        q     == total \div call.n_chunks
        r     == total % call.n_chunks
    IN  /\ \A k \in 1 .. Len(ret.val) :
             ChunkSize(ret.val[k]) = IF k - 1 < r THEN q + 1 ELSE q
        /\ \A k, l \in 1 .. Len(ret.val) :
             Abs(ChunkSize(ret.val[k]) - ChunkSize(ret.val[l])) <= 1

C11_Witness ==
  /\ pc = "chunking"
  /\ call.first < call.last
  /\ Len(ret.val) = call.n_chunks
  /\ (call.last - call.first) % call.n_chunks > 0
  /\ (call.last - call.first) % call.n_chunks < call.n_chunks - 1
  /\ call.n_chunks < call.last - call.first

\* C12: the chunks of the ranks 0 .. n_chunks - 1 split [first, last) without
\* gap or overlap and in order: the chunk of rank 0 starts at first, each
\* chunk ends where the chunk of the next rank starts, the chunk of rank
\* n_chunks - 1 ends at last, and first <= chunk.first <= chunk.second <= last
\* for every rank, also when n_chunks > last - first.
C12_ChunkPartition ==
  (pc = "chunking" /\ call.first <= call.last) =>
    /\ ret.val[1][1] = call.first
    /\ \A k \in 1 .. Len(ret.val) - 1 : ret.val[k][2] = ret.val[k + 1][1]
    /\ Len(ret.val) = call.n_chunks => ret.val[call.n_chunks][2] = call.last
    /\ \A k \in 1 .. Len(ret.val) :
         /\ call.first <= ret.val[k][1]
         /\ ret.val[k][1] <= ret.val[k][2]
         /\ ret.val[k][2] <= call.last

C12_Witness ==
  /\ pc = "chunking"
  /\ Len(ret.val) = call.n_chunks
  /\ call.n_chunks > call.last - call.first
  /\ call.last - call.first > 1
  /\ \E k \in 1 .. Len(ret.val) : ChunkSize(ret.val[k]) = 0

\* ---- enumerate
\* The pairs (i, S[i]) for i below len(S), i counted from 0.
EnumeratePairs(S) == [k \in 1 .. Len(S) |-> <<k - 1, S[k]>>]

\* C13: for any finite sequence S, traversing enumerate(S) yields exactly
\* len(S) pairs, the i-th (i from 0) being (i, S[i]): the index starts at 0 and
\* grows by one with each element.
C13_EnumeratePairs ==
  obj.kind = "enumerate" =>
    LET pairs == EnumeratePairs(obj.rg)
    IN  /\ pc # "fault"
        /\ IsPrefix(out, pairs)
        /\ pc \in {"loop", "done"} => it.i = Len(out) /\ it.it = Len(out)
        /\ pc = "done" => out = pairs /\ Len(out) = Len(obj.rg)

C13_Witness ==
  /\ obj.kind = "enumerate" /\ pc = "done"
  /\ Len(obj.rg) = 3
  /\ out = <<<<0, obj.rg[1]>>, <<1, obj.rg[2]>>, <<2, obj.rg[3]>>>>
  /\ obj.rg[2] # 1

\* ---- transform
\* f(S[0]), f(S[1]), ... for the pure callable of code fn
Mapped(lambda, S) == [k \in 1 .. Len(S) |-> Apply(lambda, S[k]).val]

Pure(lambda) == lambda.fn \in {"square", "sum"}

\* C14: for any finite sequence S and any pure unary function f, traversing
\* transform(S, f) yields exactly len(S) values, the i-th being f(S[i]), in
\* the order of S.
C14_TransformValues ==
  (obj.kind = "transform" /\ obj.inner = "container" /\ Pure(obj.lambda)) =>
    LET values == [k \in 1 .. Len(obj.rg) |-> obj.rg[k] * obj.rg[k]]
    IN  /\ pc # "fault"
        /\ IsPrefix(out, values)
        /\ pc \in {"loop", "done"} => it.it = Len(out)
        /\ pc = "done" => out = values /\ Len(out) = Len(obj.rg)

C14_Witness ==
  /\ obj.kind = "transform" /\ obj.inner = "container" /\ obj.lambda = square
  /\ pc = "done"
  /\ Len(obj.rg) = 3 /\ obj.rg[1] = 1
  /\ out = <<1, 4, 9>>

\* C19: for any finite sequences A and B and any pure function pair_fn on
\* pairs, traversing transform(zip(A, B), pair_fn) yields exactly
\* min(len(A), len(B)) values, the i-th being pair_fn((A[i], B[i])): the
\* sequence got by applying pair_fn to each pair zip(A, B) yields.
C19_TransformZip ==
  (obj.kind = "transform" /\ obj.inner = "zip" /\ Len(obj.rg.tu) = 2) =>
    LET A      == obj.rg.tu[1]
        B      == obj.rg.tu[2]
        values == [k \in 1 .. Min(Len(A), Len(B)) |-> A[k] + B[k]]
    IN  /\ pc # "fault"
        /\ IsPrefix(out, values)
        /\ pc = "done" =>
             /\ out = values
             /\ Len(out) = Min(Len(A), Len(B))
             /\ out = Mapped(obj.lambda, ZipPairs(A, B))

C19_Witness ==
  /\ obj.kind = "transform" /\ obj.inner = "zip" /\ Len(obj.rg.tu) = 2
  /\ pc = "done"
  /\ Len(obj.rg.tu[1]) = 2 /\ Len(obj.rg.tu[2]) = 3
  /\ obj.rg.tu[1][1] = 1 /\ obj.rg.tu[2][1] = 0
  /\ out = <<1, 3>>

\* ---- how the source is held
\* the containers named in the factory call, as they were at the call
Args(c) == IF c.fn \in {"zip", "product"} \/ (c.fn = "transform" /\ c.lambda = sum)
             THEN c.tu ELSE <<c.rg>>

Adapters == {"enumerate", "transform", "zip", "product", "slice", "stride"}

Changed == \E r \in 1 .. Len(caller) : caller[r] # Args(call)[r]

\* C16 as stated: every adapter (enumerate, transform, zip, product, slice,
\* stride) holds its source by value, so a change the caller makes to the
\* source S after the adapter was constructed reaches neither the containers
\* the adapter reads nor a later traversal.
C16_HeldByValue ==
  (obj.kind \in Adapters /\ Changed) =>
    /\ \A r \in 1 .. Len(Storage(obj)) : \A j \in 1 .. Len(Storage(obj)[r]) :
         Storage(obj)[r][j] # Mark
    /\ (obj.kind = "enumerate" /\ pc = "done") => out[1] = <<0, call.rg[1]>>

\* C16 amended: an adapter built from an rvalue holds a container of its
\* own and a change the caller makes to S later is not visible in a later
\* traversal; an adapter built from an lvalue S holds a reference to S, reads
\* the caller's container itself and a later traversal yields the changed
\* elements.
C16_HeldByCategory ==
  (obj.kind \in Adapters /\ Changed) =>
    /\ call.valcat = "rvalue" =>
         /\ \A r \in 1 .. Len(Storage(obj)) : \A j \in 1 .. Len(Storage(obj)[r]) :
              Storage(obj)[r][j] # Mark
         /\ (obj.kind = "enumerate" /\ pc = "done") => out[1] = <<0, call.rg[1]>>
         /\ (obj.kind = "zip" /\ pc = "done" /\ Len(out) > 0) =>
              \A r \in 1 .. Len(obj.tu) : out[1][r] = call.tu[r][1]
    /\ call.valcat = "lvalue" =>
         /\ Storage(obj) = caller
         /\ (obj.kind = "enumerate" /\ pc = "done") => out[1] = <<0, Mark>>
         /\ (obj.kind = "zip" /\ pc = "done" /\ Len(out) > 0) =>
              \E r \in 1 .. Len(obj.tu) : out[1][r] = Mark

C16_Witness ==
  /\ obj.kind = "enumerate" /\ pc = "done" /\ Changed
  /\ call.valcat = "lvalue"
  /\ Len(call.rg) = 2 /\ call.rg[1] = 1
  /\ out = <<<<0, Mark>>, <<1, 2>>>>

\* ---- writing through a slice
\* S with S[a], ..., S[min(b, len(S)) - 1] (indices from 0) replaced by v
Overwritten(S, a, b, v) ==
  [j \in 1 .. Len(S) |-> IF a <= j - 1 /\ j - 1 < Min(b, Len(S)) THEN v ELSE S[j]]

AllWritten == \A k \in 1 .. Len(out) : out[k] = Written

\* C17: a loop that assigns through the elements of slice(S, a, b), S being
\* a container of the caller, changes exactly S[a], ..., S[min(b, len(S)) - 1]
\* of S and leaves every other element of S unchanged.
C17_SliceWrites ==
  (obj.kind = "slice" /\ call.valcat = "lvalue" /\ AllWritten
     /\ call.rg = [j \in 1 .. Len(call.rg) |-> IF caller[1][j] = Written THEN call.rg[j]
                                               ELSE caller[1][j]]) =>
    /\ \A j \in 1 .. Len(call.rg) :
         (j - 1 < call.start_idx \/ j - 1 >= Min(call.end_idx, Len(call.rg)))
           => caller[1][j] = call.rg[j]
    /\ pc = "done" =>
         caller[1] = Overwritten(call.rg, call.start_idx, call.end_idx, Written)

\* C15: foreach(rg, f) calls f exactly once on each element a traversal of
\* rg from begin() to end() yields, in the order of the traversal, and on no
\* other value, for every range with step != 0, positive or negative.
C15_Foreach ==
  pc \in {"foreach", "foreach_done"} =>
    LET terms == RangeTerms(obj.first_, obj.last_, obj.step_)
    IN  /\ IsPrefix(out, terms)
        /\ pc = "foreach_done" => out = terms

\* C18: make_vector_from_range(rg) returns the sequence of the elements a
\* traversal of rg yields, in the same order and of the same length; for the
\* integer range [0, N) this is 0, 1, ..., N - 1 for every N >= 0 (empty for
\* N = 0).
C18_MakeVector ==
  ret.fn = "make_vector_from_range" =>
    /\ ret.vec = RangeTerms(obj.first_, obj.last_, obj.step_)
    /\ pc = "done" => ret.vec = out
    /\ pc = "loop" => IsPrefix(out, ret.vec)
    /\ (obj.first_ = 0 /\ obj.step_ = 1 /\ obj.last_ >= 0) =>
         ret.vec = [k \in 1 .. obj.last_ |-> k - 1]

C18_Witness ==
  /\ ret.fn = "make_vector_from_range" /\ pc = "done"
  /\ obj.first_ = 0 /\ obj.step_ = 1 /\ obj.last_ = 3
  /\ ret.vec = <<0, 1, 2>>
  /\ out = <<0, 1, 2>>

NonEmpty(tu) == \A i \in 1 .. Len(tu) : Len(tu[i]) > 0

\* C21: for a product over N non-empty finite ranges, after k increments
\* from begin(), 0 <= k <= product of the sizes, every current iterator at an
\* index > 0 is strictly before its own end, and the current iterator at
\* index 0 equals its end (the product iterator equals the end sentinel)
\* exactly when k equals the product of the sizes; all iterators at an
\* index > 0 are then back at their begin.  (k is the length of out: the loop
\* increments once per element.)
C21_ProductIterators ==
  (obj.kind = "product" /\ NonEmpty(obj.tu)) =>
    /\ pc # "fault"
    /\ pc \in {"loop", "done"} =>
         LET N == Len(obj.tu)
             P == ProductOfSizes(obj.tu)
         IN  /\ Len(out) <= P
             /\ \A i \in 2 .. N : it.its[i] < Len(obj.tu[i])
             /\ (it.its[1] = Len(obj.tu[1])) <=> (Len(out) = P)
             /\ prod_eq_sentinel(it, endIt) <=> (Len(out) = P)
             /\ Len(out) = P => \A i \in 2 .. N : it.its[i] = it.its_begin[i]

C21_Witness ==
  /\ obj.kind = "product" /\ Len(obj.tu) = 2 /\ pc = "done"
  /\ Len(obj.tu[1]) = 2 /\ Len(obj.tu[2]) = 3
  /\ Len(out) = 6
  /\ it.its = <<2, 0>>

\* ---- equality of the iterators of an integer range
\* pos >= last for step > 0, pos <= last for step < 0
PastLast(pos) ==
  \/ obj.step_ > 0 /\ pos >= obj.last_
  \/ obj.step_ < 0 /\ pos <= obj.last_

\* C22: two iterators of an integer range compare equal if and only if
\* their positions are equal or both are at end (pos >= last for step > 0,
\* pos <= last for step < 0); an iterator that stepped past last without ever
\* having pos == last therefore compares equal to the end() iterator, whose
\* position is last.
C22_RangeIteratorEquality ==
  pc = "compared" =>
    /\ ret.val <=> (ret.a.pos = ret.b.pos \/ (PastLast(ret.a.pos) /\ PastLast(ret.b.pos)))
    /\ (PastLast(ret.a.pos) /\ ret.b = range_end(obj)) => ret.val

C22_Witness ==
  /\ pc = "compared"
  /\ obj.step_ = 2 /\ obj.first_ = 0 /\ obj.last_ = 3
  /\ ret.a.pos = 4 /\ ret.b.pos = 3
  /\ ret.val

\* ---- the index of an enumerate iterator
\* C23: every call of begin() on an enumerated range returns an iterator
\* whose index is 0, however many traversals or increments were made before
\* on other iterators of that range; after k increments from begin() the
\* index is k.  (k is the length of out.)
C23_EnumerateIndex ==
  (obj.kind = "enumerate" /\ pc \in {"loop", "done"}) =>
    /\ it.i = Len(out)
    /\ Len(out) = 0 => it = [it |-> 0, i |-> 0]
    /\ ret.fn = "traversal" => ret.it.i = Len(ret.out)

C23_Witness ==
  /\ obj.kind = "enumerate" /\ pc = "loop"
  /\ ret.fn = "traversal" /\ ret.complete /\ ret.it.i = 3
  /\ it.i = 0 /\ out = <<>>

\* ---- termination of the traversal of an integer range
\* C24: traversing an integer range terminates: for every range with
\* step != 0 (unbounded integers) an iterator started at begin() compares
\* equal to end() after exactly size() increments, also when step does not
\* divide last - first, so that the position never equals last.  (The loop
\* has made Len(out) increments; RangeCap is larger than every size() of the
\* bounds, so no traversal is cut off.)
C24_RangeTerminates ==
  (obj.kind = "range" /\ pc \in {"loop", "done"}) =>
    /\ Len(out) <= range_size(obj)
    /\ range_size(obj) < RangeCap
    /\ range_iter_eq(it, endIt) <=> (Len(out) = range_size(obj))
    /\ pc = "done" => Len(out) = range_size(obj)
    /\ it.pos = obj.first_ + Len(out) * obj.step_

C24_Witness ==
  /\ obj.kind = "range" /\ pc = "done"
  /\ obj.first_ = 3 /\ obj.last_ = 0 - 2 /\ obj.step_ = 0 - 2
  /\ Len(out) = 3
  /\ it.pos = 0 - 3

\* ---- termination of foreach
\* C25: foreach(rg, f) terminates after finitely many calls of f for every
\* range rg with step != 0, also with a negative step (first < last with
\* step < 0, or first > last with step < 0).
\* As a property of finite runs: a loop that terminates moves i towards last
\* by at least one per call of f, so it makes at most |last - first| calls,
\* and it is not ended by an overflow of i.
C25_ForeachTerminates ==
  (obj.kind = "range" /\ pc \in {"foreach", "foreach_done", "fault"}) =>
    /\ pc # "fault"
    /\ Len(out) <= Abs(obj.last_ - obj.first_)

\* ---- safety of the traversal of a product
\* C26: a traversal of product(r1, ..., rN) from begin() until the iterator
\* equals end() never dereferences and never increments a source iterator
\* that equals its own source's end, for all source sizes, also when r1 is
\* non-empty and a later range is empty.  (In a loop state whose iterator is
\* not equal to the sentinel the loop goes on to dereference every source
\* iterator and to increment the last one.)
C26_ProductNeverAtEnd ==
  obj.kind = "product" =>
    /\ pc # "fault"
    /\ (pc = "loop" /\ Len(out) < ProductCap /\ ~prod_eq_sentinel(it, endIt)) =>
         \A i \in 1 .. Len(obj.tu) : it.its[i] # it.its_end[i]

\* ---- safety of the iterators of a strided range
\* C27: for any source of length L and any stride n > 0, the source position
\* held by a stride iterator - the one end() returns and every one reached by
\* incrementing begin() up to end() - never exceeds L, the one-past-the-end
\* position of the source.
C27_StridePosition ==
  (obj.kind = "stride" /\ obj.stride > 0 /\ pc \in {"loop", "done", "probed"}) =>
    /\ endIt.it <= Len(obj.rg)
    /\ it.it <= Len(obj.rg)

\* C28: for a strided range whose stride is <= 0, every way of obtaining an
\* iterator - begin(), cbegin(), end() or cend(), in any order, over an empty
\* or a non-empty source - ends in the invalid-argument error reported to the
\* caller and in no other outcome, such as a division by zero in the
\* end-offset computation or an advance of the source iterator by a
\* non-positive offset.
C28_StrideIterators ==
  (call.fn = "stride" /\ call.stride <= 0 /\ pc # "constructed") => pc = "error"

\* ---- the callable of a transformed range
\* C29: traversing a transformed range does not change the callable stored
\* in the range: also with a stateful callable, every traversal started with
\* begin() starts from the callable's state at construction, so two
\* successive full traversals over an unchanged source yield identical
\* sequences.
C29_TransformCallable ==
  (obj.kind = "transform" /\ pc \in {"constructed", "loop", "done", "probed", "fault"}) =>
    /\ obj.lambda = call.lambda
    /\ (pc = "loop" /\ out = <<>>) => it.lambda = call.lambda
    /\ (ret.fn = "traversal" /\ ret.complete /\ pc = "done") => out = ret.out

C29_Witness ==
  /\ obj.kind = "transform" /\ obj.lambda = enum_imitation
  /\ ret.fn = "traversal" /\ ret.complete /\ pc = "done"
  /\ Len(ret.out) = 3 /\ ret.it.lambda.n = 3
  /\ out = ret.out /\ out[3][1] = 2 /\ it.lambda.n = 3

\* ---- range::size() in machine integers
\* C30: with w-bit two's-complement integers, for every first, last and
\* step != 0 representable in w bits, range::size() evaluated as
\* max(0, (last + step - sign(step) - first) / step) with wrap-around equals
\* the mathematical count of the terms first + k*step strictly before last:
\* no intermediate overflow changes the result.
C30_RangeSizeWidth ==
  (call.fn = "range_size" /\ pc = "sized") =>
    ret.val = Cardinality(TermsBefore(call.first, call.last, call.step))

====
